---- MODULE Spec2Model ----
(***************************************************************************)
(* Model of src/sa.py: class SA, a sentiment-classification pipeline.      *)
(*                                                                         *)
(* One SA object, the ./models directory and the outcome of the last call  *)
(* are the state.  Every public method is one action.  What the external   *)
(* frameworks do (pandas, keras, tensorflow) is an input of the action     *)
(* that calls them, drawn from small sets.                                 *)
(*                                                                         *)
(* Python values:                                                          *)
(*   - an attribute or argument that may be missing/None is a sequence of  *)
(*     length 0 (missing) or 1 (present);                                  *)
(*   - a text is the sequence of its whitespace-separated words;           *)
(*   - a file name is the sequence of its characters;                      *)
(*   - a probability is an integer k standing for k / Scale;               *)
(*   - a scalar carries its type: Float32(k), Str(s), Int64(k).            *)
(***************************************************************************)
EXTENDS Integers, Sequences, FiniteSets, TLC

VARIABLES
    obj,            \* TRUE when an SA instance exists
    word_index,     \* self.word_index   (option)
    positive_cap,   \* self.positive_cap (option)
    neutral_cap,    \* self.neutral_cap  (option)
    model,          \* self.model        (option)
    loss,           \* self.loss         (option)
    accuracy,       \* self.accuracy     (option)
    models_dir,     \* the entries of ./models: a set of names
    op,             \* the method called last
    arg,            \* its argument
    ret,            \* its outcome: a returned value or a raised exception
    log,            \* the log records it emitted
    frame           \* its local variables, as far as the properties read them

vars == <<obj, word_index, positive_cap, neutral_cap, model, loss, accuracy,
          models_dir, op, arg, ret, log, frame>>

self_vars == <<obj, word_index, positive_cap, neutral_cap, model, loss, accuracy>>

----------------------------------------------------------------------------
(* Bounds of the model *)

\* probabilities and thresholds are multiples of 1/Scale
Scale == 4
\* reviews of maxlen - Around .. maxlen + Around words are tried
Around == 1
\* a batch file holds at most MaxFileLen reviews
MaxFileLen == 3
\* a data set holds at most MaxRows rows
MaxRows == 2
\* train_model is not followed once ./models holds more than MaxEntries entries
MaxEntries == 3

(* Program constants *)

\* pad_sequences(..., maxlen=500)
maxlen == 500

----------------------------------------------------------------------------
(* Python values *)

None == <<>>
Some(v) == <<v>>
Get(o) == o[1]

Float32(k) == [float32 |-> k]
Str(s) == [str |-> s]
Int64(k) == [int64 |-> k]

Return(v) == [kind |-> "return", value |-> v]
Raise(type, msg) == [kind |-> "raise", type |-> type, msg |-> msg]
Returned(r) == r.kind = "return"
Raised(r, type) == r.kind = "raise" /\ r.type = type

Probabilities == 0 .. Scale

Rep(w, n) == [i \in 1 .. n |-> w]

----------------------------------------------------------------------------
(* init_word_index *)

\* The rows (Words, Indexes) of the vocabulary resource.  A row may name a
\* reserved token; the reserved entries are written after it.
WordIndexCsv ==
    << <<"good", 5>>, <<"bad", 7>>, <<"well", 9>>, <<"made", 11>>,
       <<"good", 6>>, <<"<PAD>", 42>> >>

\* dict(zip(Words, Indexes)): a later row replaces an earlier one.
DictZip(rows) ==
    [w \in {rows[i][1] : i \in DOMAIN rows} |->
        LET last == CHOOSE i \in DOMAIN rows :
                        /\ rows[i][1] = w
                        /\ \A j \in DOMAIN rows : rows[j][1] = w => j <= i
        IN  rows[last][2]]

Reserved == ("<PAD>" :> 0) @@ ("<START" :> 1) @@ ("<UNK>" :> 2) @@ ("<UNUSED>" :> 3)

init_word_index(rows) == Reserved @@ DictZip(rows)

----------------------------------------------------------------------------
(* encode_review *)

\* keras text_to_word_sequence on one whitespace-free word: lower-cased, the
\* filter characters !"#$%&()*+,-./:;<=>?@[\]^_`{|}~ turned into separators,
\* empty pieces dropped.
Tokenize(word) ==
    CASE word = "Good"      -> <<"good">>
      [] word = "bad!"      -> <<"bad">>
      [] word = "meh"       -> <<"meh">>
      [] word = "well-made" -> <<"well", "made">>
      [] word = "!!!"       -> <<>>
      [] word = "<PAD>"     -> <<"pad">>
      [] word = "\n"        -> <<>>

\* on the words of a text, joined by single spaces: the tokens of the first
\* word, then those of the second, ...  (by halves, to keep the nesting shallow)
RECURSIVE text_to_word_sequence(_)
text_to_word_sequence(words) ==
    IF words = <<>> THEN <<>>
    ELSE IF Len(words) = 1 THEN Tokenize(words[1])
    ELSE text_to_word_sequence(SubSeq(words, 1, Len(words) \div 2))
         \o text_to_word_sequence(SubSeq(words, Len(words) \div 2 + 1, Len(words)))

LookupUnknownAsUnk(wi, word) == IF word \in DOMAIN wi THEN wi[word] ELSE wi["<UNK>"]

Lookup(wi, word) == IF word \in DOMAIN wi THEN wi[word] ELSE 0

\* lines 45-46
EncodeTokens(wi, tokens) == [i \in DOMAIN tokens |-> Lookup(wi, tokens[i])]

encode_review(wi, review) == EncodeTokens(wi, text_to_word_sequence(review))

----------------------------------------------------------------------------
(* encode_sentiment *)

\* str.lower() on the labels the data sets use
Lower(x) ==
    CASE x = "Positive" -> "positive"
      [] x = "POSITIVE" -> "positive"
      [] OTHER          -> x

encode_sentiment(x) == IF Lower(x) = "positive" THEN 1 ELSE 0

----------------------------------------------------------------------------
(* sequence.pad_sequences(rows, value, padding='post', maxlen) with the
   default truncating='pre': a longer row keeps its last maxlen entries, a
   shorter one is followed by value. *)

\* truncating='pre'
Truncate(s) == IF Len(s) > maxlen THEN SubSeq(s, Len(s) - maxlen + 1, Len(s)) ELSE s

\* padding='pre', the default
PadPre(trunc, value) ==
    [i \in 1 .. maxlen |->
        IF i <= maxlen - Len(trunc) THEN value ELSE trunc[i - (maxlen - Len(trunc))]]

\* padding='post'
PadPost(trunc, value) ==
    [i \in 1 .. maxlen |-> IF i <= Len(trunc) THEN trunc[i] ELSE value]

PadRow(s, value) == PadPost(Truncate(s), value)

pad_sequences(rows, value) == [r \in DOMAIN rows |-> PadRow(rows[r], value)]

----------------------------------------------------------------------------
(* which_sentiment *)

which_sentiment_strict(pos, neu, prob) ==
    IF prob > pos THEN "Positive review"
    ELSE IF prob > neu THEN "Neutral review"
    ELSE "Negative review"

which_sentiment(pos, neu, prob) ==
    IF prob >= pos THEN "Positive review"
    ELSE IF prob >= neu THEN "Neutral review"
    ELSE "Negative review"

----------------------------------------------------------------------------
(* The network.  Its weights are outside the model: a net is a name, and its
   forward pass a fixed function of the padded batch, one output per row. *)

Nets == {"untrained", "net_a", "net_b"}

Bias(net) ==
    CASE net = "untrained" -> 2
      [] net = "net_a"     -> 0
      [] net = "net_b"     -> 3

\* model.predict(batch): a (rows x 1) array of probabilities
Forward(net, batch) ==
    [r \in DOMAIN batch |->
        << (Bias(net) + batch[r][1] + batch[r][2] + batch[r][maxlen]) % (Scale + 1) >>]

\* model.evaluate(data, labels): (loss, accuracy); here the number of rows the
\* net gets wrong and right at the 1/2 mark
Score(out, labels) ==
    LET right == Cardinality({r \in DOMAIN out :
                    (IF 2 * out[r][1] >= Scale THEN 1 ELSE 0) = labels[r]})
    IN  <<Len(out) - right, right>>

Evaluate(net, data, labels) == Score(Forward(net, data), labels)

----------------------------------------------------------------------------
(* preprocess_data *)

\* file: what pd.read_csv finds at the path: nothing readable, or a table of
\* some columns whose rows are (Reviews, Sentiment).
preprocess_data(wi, file) ==
    IF ~file.readable THEN Raise("FileNotFoundError", "read_csv")
    ELSE IF ~({"Reviews", "Sentiment"} \subseteq file.columns) THEN Raise("KeyError", "column")
    ELSE Return(<<pad_sequences([r \in DOMAIN file.rows |->
                                    encode_review(wi, file.rows[r][1])], wi["<PAD>"]),
                  [r \in DOMAIN file.rows |-> encode_sentiment(file.rows[r][2])]>>)

----------------------------------------------------------------------------
(* predict *)

\* lines 130-132, with the locals of lines 125-129
PredictNoModelCheck(pos, neu, mdl, fr) ==
    LET prob == IF mdl = None THEN <<<<0>>>> ELSE Forward(Get(mdl), fr.user_review)
    IN  [ret   |-> Return(<<Float32(prob[1][1]), Str(which_sentiment(pos, neu, prob[1][1]))>>),
         frame |-> fr]

PredictRow(pos, neu, mdl, fr) ==
    IF mdl = None
    THEN [ret |-> Raise("AttributeError", "model"), frame |-> fr]
    ELSE LET prob == Forward(Get(mdl), fr.user_review)[1][1]
         IN  [ret   |-> Return(<<Float32(prob), Str(which_sentiment(pos, neu, prob))>>),
              frame |-> fr]

\* lines 125-129: review_list after line 126, user_review after line 128
PredictLocals(wi, tokens, review_list) ==
    [tokens |-> tokens, review_list |-> review_list,
     user_review |-> pad_sequences(<<review_list>>, wi["<PAD>"])]

predict(wi, pos, neu, mdl, review) ==
    PredictRow(pos, neu, mdl,
               PredictLocals(wi, text_to_word_sequence(review), encode_review(wi, review)))

----------------------------------------------------------------------------
(* Strings as character sequences: str.startswith, str.endswith, slicing,
   int(...) and the formatting of an integer in an f-string. *)

startswith(s, prefix) ==
    Len(s) >= Len(prefix) /\ SubSeq(s, 1, Len(prefix)) = prefix

endswith(s, suffix) ==
    Len(s) >= Len(suffix) /\ SubSeq(s, Len(s) - Len(suffix) + 1, Len(s)) = suffix

\* s[k:] of Python, k counted from 0
SliceFrom(s, k) == SubSeq(s, k + 1, Len(s))

DigitChars == <<"0", "1", "2", "3", "4", "5", "6", "7", "8", "9">>
IsDigit(c) == \E d \in DOMAIN DigitChars : DigitChars[d] = c
DigitVal(c) == (CHOOSE d \in DOMAIN DigitChars : DigitChars[d] = c) - 1

RECURSIVE DigitsValue(_)
DigitsValue(s) ==
    IF s = <<>> THEN 0
    ELSE 10 * DigitsValue(SubSeq(s, 1, Len(s) - 1)) + DigitVal(s[Len(s)])

AllDigits(s) == s # <<>> /\ \A i \in DOMAIN s : IsDigit(s[i])

\* int(s): decimal digits with an optional sign; anything else is a ValueError
PyInt(s) ==
    IF AllDigits(s) THEN Return(DigitsValue(s))
    ELSE IF s # <<>> /\ s[1] = "+" /\ AllDigits(Tail(s)) THEN Return(DigitsValue(Tail(s)))
    ELSE IF s # <<>> /\ s[1] = "-" /\ AllDigits(Tail(s)) THEN Return(0 - DigitsValue(Tail(s)))
    ELSE Raise("ValueError", "invalid literal for int()")

\* f"{n}" for n >= 0
RECURSIVE FormatInt(_)
FormatInt(n) ==
    IF n < 10 THEN <<DigitChars[n + 1]>>
    ELSE FormatInt(n \div 10) \o <<DigitChars[(n % 10) + 1]>>

my_model == <<"m", "y", "_", "m", "o", "d", "e", "l">>

\* a path: the directory it lies in and the entry's name
InModels(name) == [dir |-> "./models", name |-> name]
Elsewhere(name) == [dir |-> "./out", name |-> name]

----------------------------------------------------------------------------
(* train_model, lines 97-104: the generated checkpoint path.  listing is
   os.listdir("./models"), in the order the system returned it. *)

NextIdxFirstGap(curr_idx, idx) == IF curr_idx = idx THEN idx + 1 ELSE curr_idx

NextIdxOverwrite(curr_idx, idx) == IF curr_idx < idx THEN idx ELSE curr_idx

\* line 103
NextIdx(curr_idx, idx) == IF curr_idx <= idx THEN idx + 1 ELSE curr_idx

\* lines 99-103: the loop; a raised exception ends it
RECURSIVE ScanListing(_, _)
ScanListing(listing, curr_idx) ==
    IF listing = <<>> THEN Return(curr_idx)
    ELSE LET i == Head(listing)
         IN  IF startswith(i, my_model)
             THEN LET idx == PyInt(SliceFrom(i, 9))
                  IN  IF Returned(idx)
                      THEN ScanListing(Tail(listing), NextIdx(curr_idx, idx.value))
                      ELSE idx
             ELSE ScanListing(Tail(listing), curr_idx)

\* line 104
GeneratedName(curr_idx) == my_model \o <<"_">> \o FormatInt(curr_idx)

\* every order in which os.listdir may return the entries
RECURSIVE Listings(_)
Listings(entries) ==
    IF entries = {} THEN {<<>>}
    ELSE UNION {{<<e>> \o rest : rest \in Listings(entries \ {e})} : e \in entries}

----------------------------------------------------------------------------
(* predict_from_file *)

FileUnreadable == [readable |-> FALSE, columns |-> {}, rows |-> <<>>, lines |-> <<>>]
CsvFile(columns, rows) == [readable |-> TRUE, columns |-> columns, rows |-> rows, lines |-> <<>>]
TxtFile(lines) == [readable |-> TRUE, columns |-> {}, rows |-> <<>>, lines |-> lines]

IsStr(v) == "str" \in DOMAIN v

\* the text numpy gives a scalar when it is stored in a string array
NpStr(v) ==
    IF IsStr(v) THEN v
    ELSE IF "float32" \in DOMAIN v THEN Str(ToString(v.float32))
    ELSE Str(ToString(v.int64))

\* np.array of rows, and the array np.append(arr, rows, axis=0) builds: one
\* dtype for all entries, a string dtype as soon as one entry is a string
NpArray(rows) ==
    IF \E r \in DOMAIN rows : \E c \in DOMAIN rows[r] : IsStr(rows[r][c])
    THEN [r \in DOMAIN rows |-> [c \in DOMAIN rows[r] |-> NpStr(rows[r][c])]]
    ELSE rows

np_append(arr, rows) == NpArray(arr \o NpArray(rows))

KeepNewline(line) == line

\* j.replace("\n", "")
StripNewline(line) == SelectSeq(line, LAMBDA c : c # "\n")

\* the reviews the loop has passed to predict when it has gone n rounds
PredictedUpTo(data, n) == SubSeq(data, 1, n)

\* lines 160-165 and 172-177: the loop over the reviews
Collect(data, one) ==
    LET failed == {i \in DOMAIN data : ~Returned(one[i].ret)}
        sentiment_collection[i \in 0 .. Len(data)] ==
            IF i = 0 THEN NpArray(<< <<Int64(0), Int64(0), Int64(0)>> >>)
            ELSE np_append(sentiment_collection[i - 1],
                           << <<Str(data[i]), one[i].ret.value[1], one[i].ret.value[2]>> >>)
    IN  IF failed = {}
        THEN [ret   |-> Return(Tail(sentiment_collection[Len(data)])),
              frame |-> [read |-> TRUE, predicted |-> PredictedUpTo(data, Len(data))]]
        ELSE LET first == CHOOSE i \in failed : \A j \in failed : i <= j
             IN  [ret   |-> one[first].ret,
                  frame |-> [read |-> TRUE, predicted |-> PredictedUpTo(data, first)]]

PredictLoop(wi, pos, neu, mdl, data) ==
    Collect(data, [i \in DOMAIN data |-> predict(wi, pos, neu, mdl, data[i])])

csv == <<".", "c", "s", "v">>
txt == <<".", "t", "x", "t">>

\* line 180: raise <a str>.  Python 3 refuses to raise what is no exception.
RaiseStr(text) == Raise("TypeError", "exceptions must derive from BaseException")

predict_from_file(wi, pos, neu, mdl, file_path, file) ==
    IF endswith(file_path, csv)
    THEN IF ~file.readable
         THEN [ret |-> Raise("FileNotFoundError", "read_csv"),
               frame |-> [read |-> FALSE, predicted |-> <<>>]]
         ELSE IF "Reviews" \notin file.columns
         THEN [ret |-> Raise("KeyError", "Reviews"),
               frame |-> [read |-> TRUE, predicted |-> <<>>]]
         ELSE PredictLoop(wi, pos, neu, mdl, [r \in DOMAIN file.rows |-> file.rows[r][1]])
    ELSE IF endswith(file_path, txt)
    THEN IF ~file.readable
         THEN [ret |-> Raise("FileNotFoundError", "open"),
               frame |-> [read |-> FALSE, predicted |-> <<>>]]
         ELSE PredictLoop(wi, pos, neu, mdl,
                          [j \in DOMAIN file.lines |-> StripNewline(file.lines[j])])
    ELSE [ret |-> RaiseStr(<<"Invalid file format">> \o file_path),
          frame |-> [read |-> FALSE, predicted |-> <<>>]]

----------------------------------------------------------------------------
(* __init__ *)

\* " " + e: str + str concatenates; str + anything else is a TypeError
PyStrAdd(a, b) ==
    IF IsStr(b) THEN Return(Str(<<a.str, b.str>>))
    ELSE Raise("TypeError", "can only concatenate str to str")

\* lines 23-26: what the try block raises, if anything.  growth is what
\* set_memory_growth does on this machine: None, or the exception it raises.
TryMemoryGrowth(physical_devices, growth) ==
    IF physical_devices = <<>> THEN Some(Raise("IndexError", "list index out of range"))
    ELSE growth

\* lines 27-28: the handler.  The message is built before logging.info is called.
ExceptMemoryGrowth(e) ==
    LET message == PyStrAdd(Str(" "), e)
    IN  IF Returned(message)
        THEN [ret |-> Return(None), log |-> <<[level |-> "INFO", msg |-> message.value]>>]
        ELSE [ret |-> message, log |-> <<>>]

\* vocabulary: the rows read_csv finds at WORD_INDEX_PATH, or None when it fails
SA_init(vocabulary, config, physical_devices, growth) ==
    IF vocabulary = None
    THEN [ret |-> Raise("FileNotFoundError", "read_csv"), log |-> <<>>,
          word_index |-> None, positive_cap |-> None, neutral_cap |-> None,
          frame |-> [growth_failed |-> FALSE]]
    ELSE LET raised == TryMemoryGrowth(physical_devices, growth)
             handled == IF raised = None THEN [ret |-> Return(None), log |-> <<>>]
                        ELSE ExceptMemoryGrowth(Get(raised))
         IN  [ret |-> handled.ret, log |-> handled.log,
              word_index |-> Some(init_word_index(Get(vocabulary))),
              positive_cap |-> Some(config.POSITIVE_CAP),
              neutral_cap |-> Some(config.NEUTRAL_CAP),
              frame |-> [growth_failed |-> raised # None]]

----------------------------------------------------------------------------
(* train_model *)

Attrs == [word_index |-> word_index, model |-> model, loss |-> loss, accuracy |-> accuracy]

\* created: line 83 was reached; generated: lines 98-104 made the path
NoSave == [created |-> FALSE, generated |-> FALSE, saved |-> None, listing |-> <<>>]

\* lines 97-106, once the net is fitted and evaluated
NameAndSave(trained, dir, save_as, scan, listing) ==
    IF ~Returned(scan)
    THEN trained @@ [dir |-> dir, frame |-> [NoSave EXCEPT !.created = TRUE], ret |-> scan]
    ELSE LET path == IF save_as = None THEN InModels(GeneratedName(scan.value))
                     ELSE Get(save_as)
         IN  trained @@
             [dir |-> IF path.dir = "./models" THEN dir \cup {path.name} ELSE dir,
              frame |-> [created |-> TRUE, generated |-> save_as = None,
                         saved |-> Some(path), listing |-> listing],
              ret |-> Return(None)]

\* lines 83-106.  fit: the net model.fit leaves, or None when fitting raises
FitAndSave(self, dir, save_as, train_set, test_set, fit, listing) ==
    LET same == [model |-> self.model, loss |-> self.loss, accuracy |-> self.accuracy,
                 dir |-> dir, frame |-> NoSave]
    IN  IF ~Returned(train_set) THEN same @@ [ret |-> train_set]
        ELSE IF ~Returned(test_set) THEN same @@ [ret |-> test_set]
        ELSE IF fit = None
        THEN [same EXCEPT !.model = Some("untrained"), !.frame.created = TRUE]
             @@ [ret |-> Raise("ValueError", "fit")]
        ELSE LET ev == Evaluate(Get(fit), test_set.value[1], test_set.value[2])
             IN  NameAndSave([model |-> fit, loss |-> Some(ev[1]), accuracy |-> Some(ev[2])],
                             dir, save_as,
                             IF save_as = None THEN ScanListing(listing, 0) ELSE Return(0),
                             listing)

train_model(self, dir, save_as, train, test, fit, listing) ==
    FitAndSave(self, dir, save_as,
               preprocess_data(Get(self.word_index), train),
               preprocess_data(Get(self.word_index), test), fit, listing)

----------------------------------------------------------------------------
(* load_saved_model *)

\* keras.models.load_model(load_path): stored is what the framework makes of
\* the artifact at the path, a returned net or a raised exception; there is
\* none to read for None and for a name ./models does not hold.
load_model(dir, load_path, stored) ==
    IF load_path = None THEN Raise("TypeError", "load_model(None)")
    ELSE IF Get(load_path).dir = "./models" /\ Get(load_path).name \notin dir
    THEN Raise("OSError", "No file or directory found")
    ELSE stored

ExceptLoadFallback(self, e) ==
    [model |-> Some("untrained"), loss |-> self.loss, accuracy |-> self.accuracy,
     log |-> <<[level |-> "CRITICAL", msg |-> e]>>, ret |-> e]

\* lines 114-116
ExceptLoad(self, e) ==
    [model |-> self.model, loss |-> self.loss, accuracy |-> self.accuracy,
     log |-> <<[level |-> "CRITICAL", msg |-> e]>>, ret |-> e]

\* lines 112-118
LoadAndEvaluate(self, test_set, loaded) ==
    IF ~Returned(test_set)
    THEN [model |-> self.model, loss |-> self.loss, accuracy |-> self.accuracy,
          log |-> <<>>, ret |-> test_set, frame |-> [tried |-> FALSE]]
    ELSE IF ~Returned(loaded)
    THEN ExceptLoad(self, loaded) @@ [frame |-> [tried |-> TRUE, loaded |-> loaded]]
    ELSE LET ev == Evaluate(loaded.value, test_set.value[1], test_set.value[2])
         IN  [model |-> Some(loaded.value), loss |-> Some(ev[1]),
              accuracy |-> Some(ev[2]), log |-> <<>>, ret |-> Return(None),
              frame |-> [tried |-> TRUE, loaded |-> loaded]]

load_saved_model(self, dir, load_path, test, stored) ==
    LoadAndEvaluate(self, preprocess_data(Get(self.word_index), test),
                    load_model(dir, load_path, stored))

----------------------------------------------------------------------------
(* The inputs the actions draw from *)

\* config.py
Configs ==
    {[POSITIVE_CAP |-> 3, NEUTRAL_CAP |-> 1, DEVICE |-> "GPU"],
     [POSITIVE_CAP |-> 2, NEUTRAL_CAP |-> 2, DEVICE |-> "CPU"]}

Vocabularies == {None, Some(WordIndexCsv)}
DeviceLists == {<<>>, <<"device:0">>}
GrowthOutcomes == {None, Some(Raise("RuntimeError", "devices cannot be modified"))}

ShortReviews == {<<>>, <<"Good">>, <<"bad!", "meh">>, <<"well-made", "!!!">>, <<"<PAD>", "Good">>}

\* reviews of about maxlen tokens: a run of one word and a short ending
LongReviews ==
    {Rep(w, n) \o t : w \in {"Good", "meh"},
                      n \in (maxlen - Around - 1) .. (maxlen + Around),
                      t \in {<<>>, <<"bad!">>, <<"well-made">>, <<"!!!">>}}

Sentiments == {"Positive", "POSITIVE", "negative"}

RECURSIVE SeqsUpTo(_, _)
SeqsUpTo(S, n) ==
    IF n = 0 THEN {<<>>}
    ELSE LET shorter == SeqsUpTo(S, n - 1)
         IN  shorter \cup {Append(q, x) : q \in shorter, x \in S}

DataSets(reviews, n) ==
    {CsvFile({"Reviews", "Sentiment"}, rows) :
        rows \in SeqsUpTo({<<r, l>> : r \in reviews, l \in Sentiments}, n)}

SmallDataSet ==
    CsvFile({"Reviews", "Sentiment"}, << <<<<"Good">>, "Positive">> >>)

DataFiles == {FileUnreadable, SmallDataSet}

\* what readlines returns: every line but possibly the last ends with "\n",
\* and a last line without one is not empty
Lines(reviews, last_newline) ==
    [j \in DOMAIN reviews |->
        IF j < Len(reviews) \/ last_newline THEN reviews[j] \o <<"\n">> ELSE reviews[j]]

BatchFiles(reviews, n) ==
    {FileUnreadable, CsvFile({"Text"}, <<>>)}
    \cup {CsvFile({"Reviews"}, [r \in DOMAIN q |-> <<q[r]>>]) : q \in SeqsUpTo(reviews, n)}
    \cup {TxtFile(Lines(q, TRUE)) : q \in SeqsUpTo(reviews, n)}
    \cup {TxtFile(Lines(q, FALSE)) :
            q \in {x \in SeqsUpTo(reviews, n) : x # <<>> /\ x[Len(x)] # <<>>}}

\* the files of at most one line that holds the review "Good"
OneLineFiles == BatchFiles({<<"Good">>}, 1)

PathJson == <<"a", ".", "j", "s", "o", "n">>

BatchPaths ==
    {<<"a">> \o csv, <<"a">> \o txt, PathJson, <<"a", ".", "T", "X", "T">>, <<"c", "s", "v">>}

Name(k) == my_model \o <<"_">> \o FormatInt(k)

Notes == <<"n", "o", "t", "e", "s">>
Best == <<"b", "e", "s", "t">>

InitEntries == {Name(0), Name(1), Name(3), Name(9), Notes, my_model \o <<"_", "v", "2">>}

SavePaths == {None, Some(InModels(Best)), Some(InModels(Name(5))), Some(Elsewhere(Name(0)))}

LoadPaths == {None, Some(InModels(Name(0))), Some(Elsewhere(Name(0)))}

StoredArtifacts == {Return("net_b"), Raise("ValueError", "bad artifact")}

----------------------------------------------------------------------------
(* The actions: one per method call *)

NoFrame == [none |-> TRUE]

\* The state after a call whose outcome is r.  (Each method's result is
\* handed over as an argument, so that it is computed once a step.)

Constructing(config, r) ==
    /\ op' = "__init__"
    /\ arg' = config
    /\ ret' = r.ret
    /\ log' = r.log
    /\ frame' = r.frame
    /\ obj' = Returned(r.ret)
    /\ word_index' = IF Returned(r.ret) THEN r.word_index ELSE None
    /\ positive_cap' = IF Returned(r.ret) THEN r.positive_cap ELSE None
    /\ neutral_cap' = IF Returned(r.ret) THEN r.neutral_cap ELSE None
    /\ UNCHANGED <<model, loss, accuracy, models_dir>>

Construct(vocabulary, config, physical_devices, growth) ==
    /\ ~obj
    /\ Constructing(config, SA_init(vocabulary, config, physical_devices, growth))

\* a call that reads the object and leaves it as it is
Reading(name, argument, r) ==
    /\ obj
    /\ op' = name
    /\ arg' = argument
    /\ ret' = r.ret
    /\ log' = <<>>
    /\ frame' = r.frame
    /\ UNCHANGED <<self_vars, models_dir>>

WhichSentiment(prob) ==
    /\ obj
    /\ Reading("which_sentiment", prob,
               [ret |-> Return(which_sentiment(Get(positive_cap), Get(neutral_cap), prob)),
                frame |-> NoFrame])

EncodeReview(review) ==
    /\ obj
    /\ Reading("encode_review", review,
               [ret |-> Return(encode_review(Get(word_index), review)),
                frame |-> [tokens |-> text_to_word_sequence(review)]])

PreprocessData(file) ==
    /\ obj
    /\ Reading("preprocess_data", file,
               [ret |-> preprocess_data(Get(word_index), file),
                frame |-> [data |-> [r \in DOMAIN file.rows |->
                                        encode_review(Get(word_index), file.rows[r][1])]]])

Predict(review) ==
    /\ obj
    /\ Reading("predict", review,
               predict(Get(word_index), Get(positive_cap), Get(neutral_cap), model, review))

PredictFromFile(file_path, file) ==
    /\ obj
    /\ Reading("predict_from_file", [file_path |-> file_path, file |-> file],
               predict_from_file(Get(word_index), Get(positive_cap), Get(neutral_cap),
                                 model, file_path, file))

Training(save_as, r) ==
    /\ op' = "train_model"
    /\ arg' = [save_as |-> save_as, before |-> models_dir]
    /\ ret' = r.ret
    /\ log' = <<>>
    /\ frame' = r.frame
    /\ model' = r.model
    /\ loss' = r.loss
    /\ accuracy' = r.accuracy
    /\ models_dir' = r.dir
    /\ UNCHANGED <<obj, word_index, positive_cap, neutral_cap>>

TrainModel(save_as, train, test, fit, listing) ==
    /\ obj
    /\ Cardinality(models_dir) <= MaxEntries
    /\ Training(save_as, train_model(Attrs, models_dir, save_as, train, test, fit, listing))

Loading(load_path, r) ==
    /\ op' = "load_saved_model"
    /\ arg' = load_path
    /\ ret' = r.ret
    /\ log' = r.log
    /\ frame' = r.frame
    /\ model' = r.model
    /\ loss' = r.loss
    /\ accuracy' = r.accuracy
    /\ UNCHANGED <<obj, word_index, positive_cap, neutral_cap, models_dir>>

LoadSavedModel(load_path, test, stored) ==
    /\ obj
    /\ Loading(load_path, load_saved_model(Attrs, models_dir, load_path, test, stored))

----------------------------------------------------------------------------
(* Spec: the life of one SA object, from before its construction *)

NoCall ==
    /\ op = "-"
    /\ arg = None
    /\ ret = Return(None)
    /\ log = <<>>
    /\ frame = NoFrame

Init ==
    /\ obj = FALSE
    /\ word_index = None
    /\ positive_cap = None
    /\ neutral_cap = None
    /\ model = None
    /\ loss = None
    /\ accuracy = None
    /\ models_dir = {}
    /\ NoCall

\* an object whose construction succeeded under config
Constructed(config) ==
    /\ obj = TRUE
    /\ word_index = Some(init_word_index(WordIndexCsv))
    /\ positive_cap = Some(config.POSITIVE_CAP)
    /\ neutral_cap = Some(config.NEUTRAL_CAP)
    /\ loss = None
    /\ accuracy = None

DoConstruct ==
    \E v \in Vocabularies, c \in Configs, d \in DeviceLists, g \in GrowthOutcomes :
        Construct(v, c, d, g)

DoTrainModel ==
    \E save_as \in {None, Some(InModels(Best))}, train \in DataFiles, test \in DataFiles,
       fit \in {None, Some("net_a")} :
        \E listing \in (IF save_as = None THEN Listings(models_dir) ELSE {<<>>}) :
            /\ Cardinality(models_dir) < 2
            /\ TrainModel(save_as, train, test, fit, listing)

DoLoadSavedModel ==
    \E load_path \in LoadPaths, test \in DataFiles, stored \in StoredArtifacts :
        LoadSavedModel(load_path, test, stored)

DoPredict == \E review \in {<<"Good">>, <<"bad!", "meh">>} : Predict(review)

DoPredictFromFile ==
    \E file_path \in {<<"a">> \o csv, <<"a">> \o txt, PathJson},
       file \in OneLineFiles :
        PredictFromFile(file_path, file)

DoWhichSentiment == \E prob \in {0, Scale} : WhichSentiment(prob)

Next ==
    \/ DoConstruct
    \/ DoTrainModel
    \/ DoLoadSavedModel
    \/ DoPredict
    \/ DoPredictFromFile
    \/ DoWhichSentiment

Spec == Init /\ [][Next]_vars

----------------------------------------------------------------------------
(* SpecNaming: train_model against every directory ./models may be *)

InitNaming ==
    /\ Constructed([POSITIVE_CAP |-> 3, NEUTRAL_CAP |-> 1])
    /\ model = None
    /\ models_dir \in SUBSET InitEntries
    /\ NoCall

NextNaming ==
    \E save_as \in SavePaths, fit \in {None, Some("net_a")} :
        \E listing \in (IF save_as = None THEN Listings(models_dir) ELSE {<<>>}) :
            TrainModel(save_as, SmallDataSet, SmallDataSet, fit, listing)

SpecNaming == InitNaming /\ [][NextNaming]_vars

----------------------------------------------------------------------------
(* SpecClassify: which_sentiment under every pair of thresholds *)

InitClassify ==
    /\ \E pos \in Probabilities, neu \in Probabilities :
          Constructed([POSITIVE_CAP |-> pos, NEUTRAL_CAP |-> neu])
    /\ model = None
    /\ models_dir = {}
    /\ NoCall

NextClassify == \E prob \in Probabilities : WhichSentiment(prob)

SpecClassify == InitClassify /\ [][NextClassify]_vars

----------------------------------------------------------------------------
(* SpecPad: one call of encode_review, predict or preprocess_data on reviews
   shorter than, as long as and longer than maxlen *)

InitPad ==
    /\ Constructed([POSITIVE_CAP |-> 3, NEUTRAL_CAP |-> 1])
    /\ model = Some("net_a")
    /\ models_dir = {}
    /\ NoCall

PadReviews == ShortReviews \cup LongReviews

RowReviews ==
    {<<>>, <<"well-made", "!!!">>, Rep("Good", maxlen - 1) \o <<"well-made">>,
     Rep("meh", maxlen) \o <<"bad!">>}

NextPad ==
    /\ op = "-"
    /\ \/ \E review \in PadReviews : EncodeReview(review)
       \/ \E review \in PadReviews : Predict(review)
       \/ \E file \in DataSets(RowReviews, MaxRows) \cup {FileUnreadable} : PreprocessData(file)

SpecPad == InitPad /\ [][NextPad]_vars

----------------------------------------------------------------------------
(* SpecBatch: one call of predict_from_file, with and without a model *)

BatchReviews == {<<>>, <<"Good">>, <<"bad!", "meh">>}

InitBatch ==
    /\ Constructed([POSITIVE_CAP |-> 3, NEUTRAL_CAP |-> 1])
    /\ model \in {None, Some("net_a"), Some("net_b")}
    /\ models_dir = {}
    /\ NoCall

NextBatch ==
    /\ op = "-"
    /\ \E file_path \in BatchPaths, file \in BatchFiles(BatchReviews, MaxFileLen) :
          PredictFromFile(file_path, file)

SpecBatch == InitBatch /\ [][NextBatch]_vars

----------------------------------------------------------------------------
(* The claims *)

Labels == {"Positive review", "Neutral review", "Negative review"}

\* C1: with positive_cap > neutral_cap, which_sentiment returns for every
\* probability exactly one of the three labels: "Positive review" iff
\* p >= positive_cap, "Neutral review" iff neutral_cap <= p < positive_cap,
\* "Negative review" iff p < neutral_cap; each boundary belongs to the band
\* above it.
C1_ThreeBands ==
    (op = "which_sentiment" /\ Get(positive_cap) > Get(neutral_cap)) =>
        /\ Returned(ret)
        /\ ret.value \in Labels
        /\ (ret.value = "Positive review") <=> (arg >= Get(positive_cap))
        /\ (ret.value = "Neutral review")
              <=> (Get(neutral_cap) <= arg /\ arg < Get(positive_cap))
        /\ (ret.value = "Negative review") <=> (arg < Get(neutral_cap))

\* C1 witness: a probability on the lower boundary, classified neutral
C1_OnNeutralBoundary ==
    /\ op = "which_sentiment"
    /\ Get(positive_cap) > Get(neutral_cap)
    /\ arg = Get(neutral_cap)
    /\ ret = Return("Neutral review")

\* the row a padded review must be: 500 integers, and for a review of at most
\* 500 tokens the review followed by zeros only
PaddedTo500(row, encoded) ==
    /\ DOMAIN row = 1 .. 500
    /\ \A i \in 1 .. 500 : row[i] \in Int
    /\ Len(encoded) <= 500 =>
          \A i \in 1 .. 500 : row[i] = IF i <= Len(encoded) THEN encoded[i] ELSE 0

\* C8: the padded form of an encoded review has exactly 500 integers, whether
\* the review is empty, shorter than, as long as or longer than 500 tokens,
\* and a review of at most 500 tokens is followed by PAD (0) only; in predict
\* (one row) and in preprocess_data (every row).
C8_PaddedTo500 ==
    /\ op = "predict" =>
          /\ Len(frame.user_review) = 1
          /\ PaddedTo500(frame.user_review[1], frame.review_list)
    /\ (op = "preprocess_data" /\ Returned(ret)) =>
          /\ Len(ret.value[1]) = Len(arg.rows)
          /\ \A r \in DOMAIN arg.rows : PaddedTo500(ret.value[1][r], frame.data[r])

\* C8 witness: predict has padded a review of more than 500 tokens
C8_LongerReviewPadded ==
    /\ op = "predict"
    /\ Len(frame.review_list) > 500
    /\ Len(frame.user_review[1]) = 500

\* each token's code: its vocabulary index, 0 when the vocabulary lacks it
EncodedAs(wi, tokens, encoded) ==
    /\ Len(encoded) = Len(tokens)
    /\ \A i \in DOMAIN tokens :
          /\ tokens[i] \in DOMAIN wi => encoded[i] = wi[tokens[i]]
          /\ tokens[i] \notin DOMAIN wi => encoded[i] = 0 /\ encoded[i] = wi["<PAD>"]

\* C9: encode_review gives one integer per token, in token order: the
\* vocabulary index of a token the vocabulary holds, and 0, the PAD index, for
\* any other token.
C9_EncodeReview ==
    /\ op = "encode_review" => EncodedAs(Get(word_index), frame.tokens, ret.value)
    /\ op = "predict" => EncodedAs(Get(word_index), frame.tokens, frame.review_list)

\* C9 witness: a known word and an unknown one
C9_KnownAndUnknown ==
    /\ op = "encode_review"
    /\ arg = <<"bad!", "meh">>
    /\ ret = Return(<<7, 0>>)

\* a line of a text file without its line end
LineReview(line) ==
    IF line # <<>> /\ line[Len(line)] = "\n" THEN SubSeq(line, 1, Len(line) - 1) ELSE line

\* the reviews of the file the last predict_from_file call was given
ReviewsOf(call) ==
    IF endswith(call.file_path, csv)
    THEN [r \in DOMAIN call.file.rows |-> call.file.rows[r][1]]
    ELSE [j \in DOMAIN call.file.lines |-> LineReview(call.file.lines[j])]

\* what predict returns for the review on its own
PredictAlone(review) ==
    predict(Get(word_index), Get(positive_cap), Get(neutral_cap), model, review).ret.value

BatchReturned ==
    /\ op = "predict_from_file"
    /\ endswith(arg.file_path, csv) \/ endswith(arg.file_path, txt)
    /\ Returned(ret)

\* C4 as stated: a returned batch has one record per review, in file order,
\* predict having been called once per review in that order, and the i-th
\* record is (the i-th review, the probability predict returns for it, the
\* label predict returns for it).
C4_RecordsEqualPredict ==
    BatchReturned =>
        /\ frame.predicted = ReviewsOf(arg)
        /\ Len(ret.value) = Len(ReviewsOf(arg))
        /\ \A i \in DOMAIN ret.value :
              ret.value[i] = <<Str(ReviewsOf(arg)[i]),
                               PredictAlone(ReviewsOf(arg)[i])[1],
                               PredictAlone(ReviewsOf(arg)[i])[2]>>

\* C4 as amended: as above, but the record holds the probability as the text
\* of the number predict returns (the array of records is a string array).
C4_RecordsRenderPredict ==
    BatchReturned =>
        /\ frame.predicted = ReviewsOf(arg)
        /\ Len(ret.value) = Len(ReviewsOf(arg))
        /\ \A i \in DOMAIN ret.value :
              ret.value[i] = <<Str(ReviewsOf(arg)[i]),
                               Str(ToString(PredictAlone(ReviewsOf(arg)[i])[1].float32)),
                               PredictAlone(ReviewsOf(arg)[i])[2]>>

\* C4 witness: a text file of three lines gave three records, the second one
\* that of the second line
C4_ThreeLines ==
    /\ BatchReturned
    /\ endswith(arg.file_path, txt)
    /\ Len(arg.file.lines) = 3
    /\ Len(ret.value) = 3
    /\ arg.file.lines[2] = <<"bad!", "meh", "\n">>
    /\ ret.value[2][1] = Str(<<"bad!", "meh">>)

\* C5: predict_from_file on a path that ends neither in .csv nor in .txt
\* fails with the dedicated invalid-format error, before anything is read or
\* predicted and without a result.
C5_UnsupportedFormatError ==
    (op = "predict_from_file" /\ arg.file_path = PathJson) =>
        /\ Raised(ret, "UnsupportedFormatError")
        /\ ~frame.read
        /\ frame.predicted = <<>>

\* C6: when enabling memory growth fails during construction (also for an
\* empty device list), the failure is logged at INFO and the constructor
\* returns, with word_index, positive_cap and neutral_cap set.
C6_GrowthFailureIsNotFatal ==
    (op = "__init__" /\ frame.growth_failed) =>
        /\ Returned(ret)
        /\ obj
        /\ \E i \in DOMAIN log : log[i].level = "INFO"
        /\ word_index # None /\ positive_cap # None /\ neutral_cap # None

\* C7: when load_model fails in load_saved_model, the error is logged at
\* fatal severity and the same error is raised to the caller, and model, loss
\* and accuracy are what they were before the call.
C7_LoadFailureKeepsModel ==
    [][(op' = "load_saved_model" /\ frame'.tried /\ ~Returned(frame'.loaded)) =>
          /\ ret' = frame'.loaded
          /\ log' = <<[level |-> "CRITICAL", msg |-> frame'.loaded]>>
          /\ model' = model
          /\ loss' = loss
          /\ accuracy' = accuracy]_vars

\* C7 witness: a load has failed on an object that had a trained model
C7_FailedLoadAfterTraining ==
    /\ op = "load_saved_model"
    /\ frame.tried
    /\ ~Returned(frame.loaded)
    /\ ret = frame.loaded
    /\ model = Some("net_a")
    /\ loss # None

\* C10: no model is set at the start; only train_model, from line 83 on, and
\* load_saved_model, when load_model returned, set it; predict, predict_from_file
\* and which_sentiment leave model, vocabulary and thresholds as they are;
\* predict, and predict_from_file on a readable file with a review, raise
\* while no model is set and so return only after it was set.
C10_ModelLifecycle ==
    [][/\ op' \in {"predict", "predict_from_file", "which_sentiment"} =>
             /\ model' = model
             /\ word_index' = word_index
             /\ positive_cap' = positive_cap
             /\ neutral_cap' = neutral_cap
       /\ model' # model =>
             \/ op' = "train_model" /\ frame'.created
             \/ op' = "load_saved_model" /\ frame'.tried /\ Returned(frame'.loaded)
       /\ ~obj => model = None
       /\ (op' = "predict" /\ model = None) => Raised(ret', "AttributeError")
       /\ (op' = "predict" /\ Returned(ret')) => model # None
       /\ (op' = "predict_from_file" /\ model = None /\ frame'.predicted # <<>>) =>
             Raised(ret', "AttributeError")
       /\ (op' = "predict_from_file" /\ Returned(ret') /\ ret'.value # <<>>) => model # None
      ]_vars

\* C10 witness: predict has raised on an object that has no model
C10_PredictWithoutModel ==
    /\ op = "predict"
    /\ Raised(ret, "AttributeError")
    /\ model = None
    /\ obj

\* the suffixes the directories of the model can hold
Suffixes == 0 .. (9 + MaxEntries + 2)

GeneratedNow ==
    /\ op = "train_model"
    /\ frame.generated

\* the N of the generated name my_model_<N>
GeneratedSuffix(fr) == CHOOSE n \in Suffixes : Get(fr.saved).name = Name(n)

\* C2 as stated: the generated name is my_model_<N>, N the smallest
\* non-negative integer that is no suffix of an entry my_model_<k> of ./models
\* (my_model_2 when my_model_0, my_model_1 and my_model_3 are there).
C2_SmallestUnusedSuffix ==
    GeneratedNow =>
        \E n \in Suffixes :
            /\ Get(frame.saved) = InModels(Name(n))
            /\ Name(n) \notin arg.before
            /\ \A k \in 0 .. (n - 1) : Name(k) \in arg.before

\* C2 as amended: the generated name is my_model_<N>, N one more than the
\* largest suffix of an entry my_model_<k> of ./models, and 0 when there is
\* none (my_model_4 when my_model_0, my_model_1 and my_model_3 are there).
C2_OnePastLargestSuffix ==
    GeneratedNow =>
        \E n \in Suffixes :
            /\ Get(frame.saved) = InModels(Name(n))
            /\ \A k \in Suffixes : Name(k) \in arg.before => k < n
            /\ n = 0 \/ Name(n - 1) \in arg.before

\* C2 witness: my_model_0, my_model_1 and my_model_3 were there
C2_GapBelowLargest ==
    /\ GeneratedNow
    /\ arg.before = {Name(0), Name(1), Name(3)}
    /\ Get(frame.saved) = InModels(Name(4))

\* C3: a generated name is none of the names ./models holds when it is saved,
\* in whatever order they were listed; the save adds it and removes nothing;
\* its suffix exceeds every suffix present, so the suffixes generated by
\* successive calls strictly increase.
C3_NoOverwrite ==
    [][(op' = "train_model" /\ frame'.generated) =>
          /\ Get(frame'.saved).name \notin models_dir
          /\ models_dir' = models_dir \cup {Get(frame'.saved).name}
          /\ \A k \in Suffixes : Name(k) \in models_dir => k < GeneratedSuffix(frame')
          /\ GeneratedNow => GeneratedSuffix(frame) < GeneratedSuffix(frame')
      ]_vars

\* C3 witness: my_model_3 was generated next to my_model_2, which only an
\* earlier call can have generated
C3_SecondGeneratedName ==
    /\ GeneratedNow
    /\ Name(2) \in arg.before
    /\ Get(frame.saved) = InModels(Name(3))
    /\ Len(frame.listing) > 1

====
